---------------------------- MODULE Spec2Model ----------------------------
(***************************************************************************)
(* BudgetWise - the BankComparison component                               *)
(* (frontend/src/components/TransactionList.tsx, lines 379-1022).          *)
(*                                                                         *)
(* The component holds the uploaded bank statement (bankTransactions), the *)
(* last comparison (comparisonResult) and a loading flag; its handlers are *)
(* handleFileUpload (with parseCSV and formatDate), compareTransactions    *)
(* and generateReport.                                                     *)
(*                                                                         *)
(* Conventions of the model                                                *)
(*  - A JavaScript string is a sequence of one-character strings.          *)
(*  - A JavaScript number is a record [k, v]: k = "num" with v the value   *)
(*    in thousandths (0.01 is 10), k = "inf" with v the sign (1 or -1),    *)
(*    k = "nan".                                                           *)
(*  - An object identity (the !== of the bankOnly filters) is the field    *)
(*    ref of a bank record: parseCSV builds one fresh object per data      *)
(*    line, so ref is the index of that line.                              *)
(***************************************************************************)
EXTENDS Integers, Sequences, FiniteSets, TLC

VARIABLES
    transactions,       \* the prop `transactions` (line 379)
    bankTransactions,   \* useState<BankTransaction[]>([]) (line 380)
    comparisonResult,   \* useState<ComparisonResult | null>(null) (line 383)
    isLoading,          \* useState(false) (line 385)
    pendingFile,        \* the file whose text() is awaited (line 407)
    toastTitle,         \* title of the last toast shown
    host,               \* the JavaScript host: what is left to the
                        \* implementation in new Date(string)
    invocations,        \* history: the completed runs of the matcher, in
                        \* order, each [userTxs, bankRecs, result]; a run
                        \* equal to the one before it is recorded once
    ingested,           \* history: the last call of parseCSV, its argument
                        \* text with what parseCSV gives for it; Null
                        \* before the first call
    report              \* the content of the last file downloaded by
                        \* generateReport (line 707); NoReport before the
                        \* first download

vars == <<transactions, bankTransactions, comparisonResult, isLoading,
          pendingFile, toastTitle, host, invocations, ingested,
          report>>

-----------------------------------------------------------------------------
(* JavaScript numbers *)

Num(n) == [k |-> "num", v |-> n]
NaN == [k |-> "nan", v |-> 0]
Infinity == [k |-> "inf", v |-> 1]
NegInfinity == [k |-> "inf", v |-> 0 - 1]

isNaN(x) == x.k = "nan"

\* Math.abs
MathAbs(x) ==
    CASE x.k = "num" -> Num(IF x.v < 0 THEN 0 - x.v ELSE x.v)
      [] x.k = "inf" -> Infinity
      [] OTHER -> NaN

\* x - y
Minus(x, y) ==
    CASE x.k = "nan" \/ y.k = "nan" -> NaN
      [] x.k = "num" /\ y.k = "num" -> Num(x.v - y.v)
      [] x.k = "inf" /\ y.k = "inf" -> IF x.v = y.v THEN NaN ELSE x
      [] x.k = "inf" -> x
      [] OTHER -> [k |-> "inf", v |-> 0 - y.v]

\* x < t and x >= t for a finite threshold t (in thousandths); every
\* comparison with NaN is false
LessThan(x, t) ==
    CASE x.k = "num" -> x.v < t
      [] x.k = "inf" -> x.v < 0
      [] OTHER -> FALSE

GreaterEq(x, t) ==
    CASE x.k = "num" -> x.v >= t
      [] x.k = "inf" -> x.v > 0
      [] OTHER -> FALSE

\* x > t (line 506)
GreaterThan(x, t) ==
    CASE x.k = "num" -> x.v > t
      [] x.k = "inf" -> x.v > 0
      [] OTHER -> FALSE

\* the literal 0.01 of lines 581, 602 and 612, in thousandths
Tolerance == 10

-----------------------------------------------------------------------------
(* Array helpers *)

\* Array.prototype.find / findIndex: hits[i] is the callback's answer for
\* the i-th element; the index of the first element it accepts, 0 when
\* there is none (find returns undefined, findIndex -1)
FindFirst(hits) ==
    IF \E i \in 1..Len(hits) : hits[i]
    THEN CHOOSE i \in 1..Len(hits) : hits[i] /\ \A j \in 1..(i - 1) : ~hits[j]
    ELSE 0

Null == [null |-> TRUE]


-----------------------------------------------------------------------------
(* JavaScript strings: sequences of one-character strings *)

Digits == <<"0", "1", "2", "3", "4", "5", "6", "7", "8", "9">>

IsDigit(c) == \E i \in 1..10 : Digits[i] = c

DigitValue(c) == (CHOOSE i \in 1..10 : Digits[i] = c) - 1

\* white space removed by String.prototype.trim
IsSpace(c) == c \in {" ", "\t", "\n", "\r"}

Upper == <<"A", "B", "C", "D", "E", "F", "G", "H", "I", "J", "K", "L", "M",
           "N", "O", "P", "Q", "R", "S", "T", "U", "V", "W", "X", "Y", "Z">>
Lower == <<"a", "b", "c", "d", "e", "f", "g", "h", "i", "j", "k", "l", "m",
           "n", "o", "p", "q", "r", "s", "t", "u", "v", "w", "x", "y", "z">>

LowerChar(c) ==
    IF \E i \in 1..26 : Upper[i] = c
    THEN Lower[CHOOSE i \in 1..26 : Upper[i] = c]
    ELSE c

\* String.prototype.toLowerCase
ToLowerCase(s) == [i \in 1..Len(s) |-> LowerChar(s[i])]

\* String.prototype.trim
Trim(s) ==
    IF \A i \in 1..Len(s) : IsSpace(s[i])
    THEN << >>
    ELSE LET first == CHOOSE i \in 1..Len(s) :
                        ~IsSpace(s[i]) /\ \A j \in 1..(i - 1) : IsSpace(s[j])
             last == CHOOSE i \in 1..Len(s) :
                        /\ ~IsSpace(s[i])
                        /\ \A j \in (i + 1)..Len(s) : IsSpace(s[j])
         IN  SubSeq(s, first, last)

\* s.startsWith(sub, at) with at counted from 1
StartsWithAt(s, sub, at) ==
    /\ at + Len(sub) - 1 <= Len(s)
    /\ \A k \in 1..Len(sub) : s[at + k - 1] = sub[k]

\* String.prototype.includes
Includes(s, sub) == \E at \in 1..(Len(s) + 1) : StartsWithAt(s, sub, at)

\* String.prototype.endsWith
EndsWith(s, sub) ==
    Len(sub) <= Len(s) /\ StartsWithAt(s, sub, Len(s) - Len(sub) + 1)

\* s.replace(/"/g, ""): every quote character removed
StripQuotes(s) == SelectSeq(s, LAMBDA c : c # "\"")

\* s.replace(",", "."): the first comma only
ReplaceFirstComma(s) ==
    IF \E i \in 1..Len(s) : s[i] = ","
    THEN LET at == CHOOSE i \in 1..Len(s) :
                      s[i] = "," /\ \A j \in 1..(i - 1) : s[j] # ","
         IN  [s EXCEPT ![at] = "."]
    ELSE s

\* s.split(sep) for a one-character separator: never empty, "" gives [""]
RECURSIVE Split(_, _)
Split(s, sep) ==
    IF \E i \in 1..Len(s) : s[i] = sep
    THEN LET at == CHOOSE i \in 1..Len(s) :
                      s[i] = sep /\ \A j \in 1..(i - 1) : s[j] # sep
         IN  <<SubSeq(s, 1, at - 1)>> \o Split(SubSeq(s, at + 1, Len(s)), sep)
    ELSE <<s>>

\* the longest run of digits of s starting at position at; its end (at - 1
\* when there is none)
RECURSIVE DigitsEnd(_, _)
DigitsEnd(s, at) ==
    IF at <= Len(s) /\ IsDigit(s[at]) THEN DigitsEnd(s, at + 1) ELSE at - 1

\* the value of the digit string s[from..to]
RECURSIVE DigitsValue(_, _, _)
DigitsValue(s, from, to) ==
    IF to < from THEN 0
    ELSE 10 * DigitsValue(s, from, to - 1) + DigitValue(s[to])

\* the fraction digits s[from..to] in thousandths (digits after the third
\* are below the model's resolution)
FractionThousandths(s, from, to) ==
    LET d(k) == IF from + k <= to THEN DigitValue(s[from + k]) ELSE 0
    IN  100 * d(0) + 10 * d(1) + d(2)

\* parseFloat: leading white space skipped, then the longest prefix that is
\* a decimal literal ([+-] then Infinity, digits[.digits] or .digits);
\* NaN when there is none.  Exponent parts are not modelled.
parseFloat(str) ==
    LET s == Trim(str)
        signed == Len(s) >= 1 /\ s[1] \in {"+", "-"}
        sign == IF Len(s) >= 1 /\ s[1] = "-" THEN 0 - 1 ELSE 1
        b == IF signed THEN 2 ELSE 1
        intEnd == DigitsEnd(s, b)
        hasInt == intEnd >= b
        hasDot == intEnd + 1 <= Len(s) /\ s[intEnd + 1] = "."
        fracEnd == IF hasDot THEN DigitsEnd(s, intEnd + 2) ELSE intEnd
        hasFrac == hasDot /\ fracEnd >= intEnd + 2
    IN  IF StartsWithAt(s, <<"I", "n", "f", "i", "n", "i", "t", "y">>, b)
        THEN [k |-> "inf", v |-> sign]
        ELSE IF ~hasInt /\ ~hasFrac
        THEN NaN
        ELSE Num(sign * (1000 * DigitsValue(s, b, intEnd)
                         + (IF hasFrac
                            THEN FractionThousandths(s, intEnd + 2, fracEnd)
                            ELSE 0)))

-----------------------------------------------------------------------------
(* formatDate, lines 528-559 *)

\* What ECMAScript leaves to the implementation when new Date(string) gets
\* a string that is not in the ISO format, and the time zone of the host:
\*   legacy  the fallback parser reads N.N.YYYY and N-N-YYYY as month, day,
\*           year (as V8 does) and lets a day past the end of its month
\*           run over into the next month; otherwise such strings give an
\*           invalid date
\*   east    the host is east of UTC, so that local midnight is on the
\*           previous UTC calendar day
Hosts == [legacy : BOOLEAN, east : BOOLEAN]

InvalidDate == [invalid |-> TRUE]

IsLeap(y) == (y % 4 = 0 /\ y % 100 # 0) \/ y % 400 = 0

DaysInMonth(y, m) ==
    IF m = 2 THEN (IF IsLeap(y) THEN 29 ELSE 28)
    ELSE IF m \in {4, 6, 9, 11} THEN 30 ELSE 31

\* the calendar day before y-m-d
PrevDay(y, m, d) ==
    IF d > 1 THEN [y |-> y, m |-> m, d |-> d - 1]
    ELSE IF m > 1 THEN [y |-> y, m |-> m - 1, d |-> DaysInMonth(y, m - 1)]
    ELSE [y |-> y - 1, m |-> 12, d |-> 31]

\* year, month, day as the Date constructor composes them: the UTC calendar
\* day of the resulting instant, or an invalid date.  local: the string is
\* read as local time (every form but the ISO date)
MakeDate(y, m, d, local) ==
    IF m < 1 \/ m > 12 \/ d < 1 \/ d > 31 THEN InvalidDate
    ELSE IF d > DaysInMonth(y, m) /\ ~host.legacy THEN InvalidDate
    ELSE LET over == d > DaysInMonth(y, m)
             yy == IF over /\ m = 12 THEN y + 1 ELSE y
             mm == IF over THEN (IF m = 12 THEN 1 ELSE m + 1) ELSE m
             dd == IF over THEN d - DaysInMonth(y, m) ELSE d
         IN  IF local /\ host.east THEN PrevDay(yy, mm, dd)
             ELSE [y |-> yy, m |-> mm, d |-> dd]

\* s is N sep N sep YYYY with N of one or two digits: the three numbers,
\* or << >> when s has another shape (the regular expressions of lines 538
\* and 548)
NumericDateParts(s, sep) ==
    LET p == Split(s, sep)
        allDigits(t) == \A i \in 1..Len(t) : IsDigit(t[i])
    IN  IF /\ Len(p) = 3
           /\ Len(p[1]) \in {1, 2} /\ allDigits(p[1])
           /\ Len(p[2]) \in {1, 2} /\ allDigits(p[2])
           /\ Len(p[3]) = 4 /\ allDigits(p[3])
        THEN <<DigitsValue(p[1], 1, Len(p[1])), DigitsValue(p[2], 1, Len(p[2])),
               DigitsValue(p[3], 1, 4)>>
        ELSE << >>

\* s is YYYY-MM-DD (the ISO date form): year, month, day, or << >>
IsoDateParts(s) ==
    IF /\ Len(s) = 10
       /\ s[5] = "-" /\ s[8] = "-"
       /\ \A i \in {1, 2, 3, 4, 6, 7, 9, 10} : IsDigit(s[i])
    THEN <<DigitsValue(s, 1, 4), DigitsValue(s, 6, 7), DigitsValue(s, 9, 10)>>
    ELSE << >>

\* new Date(dateStr), for the shapes of the statements read here: the ISO
\* date (UTC), M/D/YYYY (local time, accepted by every engine), and
\* N.N.YYYY and N-N-YYYY (left to the implementation); anything else is
\* an invalid date
NewDate(dateStr) ==
    LET iso == IsoDateParts(dateStr)
        slash == NumericDateParts(dateStr, "/")
        dot == NumericDateParts(dateStr, ".")
        dash == NumericDateParts(dateStr, "-")
    IN  IF iso # << >> THEN MakeDate(iso[1], iso[2], iso[3], FALSE)
        ELSE IF slash # << >> THEN MakeDate(slash[3], slash[1], slash[2], TRUE)
        ELSE IF dot # << >> /\ host.legacy
        THEN MakeDate(dot[3], dot[1], dot[2], TRUE)
        ELSE IF dash # << >> /\ host.legacy
        THEN MakeDate(dash[3], dash[1], dash[2], TRUE)
        ELSE InvalidDate

\* n in decimal, padded with zeros to width digits
RECURSIVE Pad(_, _)
Pad(n, width) ==
    IF width = 0 THEN << >>
    ELSE Pad(n \div 10, width - 1) \o <<Digits[(n % 10) + 1]>>

\* date.toISOString().split("T")[0]
IsoDay(date) ==
    Pad(date.y, 4) \o <<"-">> \o Pad(date.m, 2) \o <<"-">> \o Pad(date.d, 2)

\* mutant of DayFirstIso: the first number taken for the month
MonthFirstIso(parts) ==
    Pad(parts[3], 4) \o <<"-">> \o Pad(parts[1], 2) \o <<"-">>
        \o Pad(parts[2], 2)

\* the string `${year}-${month.padStart(2, "0")}-${day.padStart(2, "0")}`
\* of lines 541-543 and 551-553 for the parts day, month, year
DayFirstIso(parts) ==
    Pad(parts[3], 4) \o <<"-">> \o Pad(parts[2], 2) \o <<"-">>
        \o Pad(parts[1], 2)

\* the string "Invalid Date" of lines 511 and 558
InvalidDateString ==
    <<"I", "n", "v", "a", "l", "i", "d", " ", "D", "a", "t", "e">>

\* lines 528-559

formatDate(dateStr) ==
    LET date == NewDate(dateStr)
        dot == NumericDateParts(dateStr, ".")
        dash == NumericDateParts(dateStr, "-")
    IN  IF date # InvalidDate
        THEN IsoDay(date)
        ELSE IF dot # << >> /\ NewDate(DayFirstIso(dot)) # InvalidDate
        THEN IsoDay(NewDate(DayFirstIso(dot)))
        ELSE IF dash # << >> /\ NewDate(DayFirstIso(dash)) # InvalidDate
        THEN IsoDay(NewDate(DayFirstIso(dash)))
        ELSE InvalidDateString

-----------------------------------------------------------------------------
(* parseCSV, lines 426-526 *)

\* mutant of DetectDelimiter: the tab looked for before the semicolon
DetectDelimiterTabFirst(headerLine) ==
    IF Includes(headerLine, <<"\t">>) THEN "\t"
    ELSE IF Includes(headerLine, <<";">>) THEN ";"
    ELSE ","

\* lines 430-436
DetectDelimiter(headerLine) ==
    IF Includes(headerLine, <<";">>) THEN ";"
    ELSE IF Includes(headerLine, <<"\t">>) THEN "\t"
    ELSE ","

\* line.split(delimiter).map((col) => col.trim().replace(/"/g, "")),
\* lines 441-443 and 471-473
SplitCells(line, delimiter) ==
    LET raw == Split(line, delimiter)
    IN  [i \in 1..Len(raw) |-> StripQuotes(Trim(raw[i]))]

\* the header cells, lines 438-443
HeaderCells(lines) ==
    SplitCells(ToLowerCase(lines[1]), DetectDelimiter(lines[1]))

\* mutant of FindHeader: the last cell naming the field taken
FindHeaderLast(headers, synonyms) ==
    LET hits == [i \in 1..Len(headers) |->
                    \E w \in synonyms : Includes(headers[i], w)]
    IN  IF \E i \in 1..Len(hits) : hits[i]
        THEN CHOOSE i \in 1..Len(hits) :
                hits[i] /\ \A j \in (i + 1)..Len(hits) : ~hits[j]
        ELSE 0

\* headers.findIndex(h => some synonym is included in h); indices count
\* from 1 and 0 stands for the -1 of findIndex
FindHeader(headers, synonyms) ==
    FindFirst([i \in 1..Len(headers) |->
                  \E w \in synonyms : Includes(headers[i], w)])

\* lines 445-447
DateIndex(headers) ==
    FindHeader(headers,
        { <<"d", "a", "t", "e">>,
          <<"d", "a", "t", "u", "m">> })

\* lines 448-454
DescIndex(headers) ==
    FindHeader(headers,
        { <<"d", "e", "s", "c", "r", "i", "p", "t", "i", "o", "n">>,
          <<"m", "e", "m", "o">>,
          <<"d", "e", "t", "a", "i", "l">>,
          <<"b", "e", "s", "c", "h", "r", "e", "i", "b", "u", "n", "g">> })

\* lines 455-457
AmountIndex(headers) ==
    FindHeader(headers,
        { <<"a", "m", "o", "u", "n", "t">>,
          <<"b", "e", "t", "r", "a", "g">> })

\* lines 458-461
TypeIndex(headers) ==
    FindHeader(headers,
        { <<"t", "y", "p", "e">>,
          <<"t", "r", "a", "n", "s", "a", "c", "t", "i", "o", "n">>,
          <<"a", "r", "t">> })

\* the four indices found in the header, lines 445-461
HeaderIndices(headers) ==
    [date |-> DateIndex(headers), desc |-> DescIndex(headers),
     amount |-> AmountIndex(headers), type |-> TypeIndex(headers)]

\* mutant of MissingRequired: the type column required too
MissingRequiredOrType(idx) ==
    idx.date = 0 \/ idx.desc = 0 \/ idx.amount = 0 \/ idx.type = 0

\* line 464, on the four indices found
MissingRequired(idx) == idx.date = 0 \/ idx.desc = 0 \/ idx.amount = 0

Max2(a, b) == IF a >= b THEN a ELSE b

\* mutant of SkipRow: one cell more than the highest index asked for
SkipRowStrict(line, columns, idx) ==
    \/ Len(columns) <=
         Max2(Max2(idx.date, idx.desc),
              Max2(idx.amount, IF idx.type # 0 THEN idx.type ELSE 1))
    \/ Trim(line) = << >>

\* the test of lines 476-485: the row is skipped.  With indices counted
\* from 1, columns.length <= Math.max(...) reads Len(columns) < the maximum,
\* and the 0 standing in for an absent type column is the index 1
SkipRow(line, columns, idx) ==
    \/ Len(columns) <
         Max2(Max2(idx.date, idx.desc),
              Max2(idx.amount, IF idx.type # 0 THEN idx.type ELSE 1))
    \/ Trim(line) = << >>

\* parseFloat(columns[amountIndex].replace(",", ".")), lines 489 and 503-505
ParsedAmount(columns, idx) ==
    parseFloat(ReplaceFirstComma(columns[idx.amount]))

\* the amount stored in the record: line 489 when a type column was found,
\* line 507 otherwise
RowAmount(columns, idx) ==
    IF idx.type # 0
    THEN ParsedAmount(columns, idx)
    ELSE MathAbs(ParsedAmount(columns, idx))

\* mutant of RowType: without a type column an amount of zero is a credit
RowTypeZeroCredit(columns, idx) ==
    IF idx.type # 0
    THEN LET typeValue == ToLowerCase(columns[idx.type])
         IN  IF \/ Includes(typeValue, <<"c", "r", "e", "d", "i", "t">>)
                \/ Includes(typeValue, <<"d", "e", "p", "o", "s", "i", "t">>)
                \/ Includes(typeValue, <<"h", "a", "b", "e", "n">>)
             THEN "credit"
             ELSE "debit"
    ELSE IF GreaterEq(ParsedAmount(columns, idx), 0) THEN "credit"
         ELSE "debit"

\* mutant of RowType: with a type column a negative amount is a debit
RowTypeSigned(columns, idx) ==
    IF idx.type # 0
    THEN LET typeValue == ToLowerCase(columns[idx.type])
         IN  IF /\ \/ Includes(typeValue, <<"c", "r", "e", "d", "i", "t">>)
                   \/ Includes(typeValue, <<"d", "e", "p", "o", "s", "i", "t">>)
                   \/ Includes(typeValue, <<"h", "a", "b", "e", "n">>)
                /\ GreaterEq(ParsedAmount(columns, idx), 0)
             THEN "credit"
             ELSE "debit"
    ELSE IF GreaterThan(ParsedAmount(columns, idx), 0) THEN "credit"
         ELSE "debit"

\* lines 490-508
RowType(columns, idx) ==
    IF idx.type # 0
    THEN LET typeValue == ToLowerCase(columns[idx.type])
         IN  IF \/ Includes(typeValue, <<"c", "r", "e", "d", "i", "t">>)
                \/ Includes(typeValue, <<"d", "e", "p", "o", "s", "i", "t">>)
                \/ Includes(typeValue, <<"h", "a", "b", "e", "n">>)
             THEN "credit"
             ELSE "debit"
    ELSE IF GreaterThan(ParsedAmount(columns, idx), 0) THEN "credit"
         ELSE "debit"

\* the callback of lines.slice(1).map, lines 470-524: the record built from
\* the n-th data line (a new object: ref), or Null
ParseRow(line, n, idx, delimiter) ==
    LET columns == SplitCells(line, delimiter)
        formattedDate == formatDate(columns[idx.date])
    IN  IF SkipRow(line, columns, idx) THEN Null
        ELSE IF formattedDate = InvalidDateString THEN Null
        ELSE [ref |-> n,
              date |-> formattedDate,
              description |-> columns[idx.desc],
              amount |-> RowAmount(columns, idx),
              type |-> RowType(columns, idx)]

\* mutant of KeepRow: the amount not tested
KeepRowNotNull(t) == t # Null

\* the filter of line 525
KeepRow(t) == t # Null /\ ~isNaN(t.amount)

\* mutant of FilterRows: the kept rows in reverse order
FilterRowsReversed(mapped) ==
    LET kept == SelectSeq(mapped, KeepRow)
    IN  [i \in 1..Len(kept) |-> kept[Len(kept) + 1 - i]]

\* .filter(...) of line 525
FilterRows(mapped) == SelectSeq(mapped, KeepRow)

\* parseCSV: threw is the Error of line 465, records the array returned;
\* delimiter and indices are the locals delimiter (lines 431-436) and
\* dateIndex, descIndex, amountIndex, typeIndex (lines 445-461) at the end
\* of the call
parseCSV(text) ==
    LET lines == Split(Trim(text), "\n")
        headers == HeaderCells(lines)
        idx == HeaderIndices(headers)
        delimiter == DetectDelimiter(lines[1])
        mapped == [n \in 1..(Len(lines) - 1) |->
                      ParseRow(lines[n + 1], n, idx, delimiter)]
    IN  IF Len(lines) = 0
        THEN [threw |-> FALSE, records |-> << >>, delimiter |-> ",",
              indices |-> HeaderIndices(<< >>)]
        ELSE IF MissingRequired(idx)
        THEN [threw |-> TRUE, records |-> << >>, delimiter |-> delimiter,
              indices |-> idx]
        ELSE [threw |-> FALSE, records |-> FilterRows(mapped),
              delimiter |-> delimiter, indices |-> idx]

-----------------------------------------------------------------------------
(* compareTransactions, lines 561-647 *)

\* mutant of amountMatch: the tolerance taken inclusive (<= 0.01)
amountMatchInclusive(userTx, bankTx) ==
    LessThan(MathAbs(Minus(userTx.amount, bankTx.amount)), Tolerance + 1)

\* line 581
amountMatch(userTx, bankTx) ==
    LessThan(MathAbs(Minus(userTx.amount, bankTx.amount)), Tolerance)

\* line 582
dateMatch(userTx, bankTx) == userTx.date = bankTx.date

\* mutant of typeMatch: the flow of the bank record not tested for an expense
typeMatchExpenseUnchecked(userTx, bankTx) ==
    \/ userTx.type = "income" /\ bankTx.type = "credit"
    \/ userTx.type = "expense"

\* lines 583-585
typeMatch(userTx, bankTx) ==
    \/ userTx.type = "income" /\ bankTx.type = "credit"
    \/ userTx.type = "expense" /\ bankTx.type = "debit"

\* the callback of the first find, lines 580-588
IsMatching(userTx, bankTx) ==
    amountMatch(userTx, bankTx) /\ dateMatch(userTx, bankTx)
        /\ typeMatch(userTx, bankTx)

\* the callback of the second find, lines 599-608
IsPotentialMismatch(userTx, bankTx) ==
    /\ userTx.date = bankTx.date
    /\ \/ GreaterEq(MathAbs(Minus(userTx.amount, bankTx.amount)), Tolerance)
       \/ ~typeMatch(userTx, bankTx)

\* mutant of MismatchReason: the direction tested first
MismatchReasonTypeFirst(userTx, bankTx) ==
    IF ~( \/ userTx.type = "income" /\ bankTx.type = "credit"
          \/ userTx.type = "expense" /\ bankTx.type = "debit" )
    THEN "Transaction type mismatch"
    ELSE "Amount mismatch"

\* lines 611-616
MismatchReason(userTx, bankTx) ==
    IF GreaterEq(MathAbs(Minus(userTx.amount, bankTx.amount)), Tolerance)
    THEN "Amount mismatch"
    ELSE "Transaction type mismatch"

\* the array both finds search, lines 580 and 599: the whole statement,
\* bankTransactions, whatever the pass has consumed so far
SearchPool(result, bankRecs) == bankRecs

\* mutant of RemoveUser: the filter test inverted (===)
RemoveUserInverted(userOnly, userTx) ==
    SelectSeq(userOnly, LAMBDA t : t.id = userTx.id)

\* result.userOnly.filter((t) => t.id !== userTx.id), lines 595 and 623
RemoveUser(userOnly, userTx) ==
    SelectSeq(userOnly, LAMBDA t : t.id # userTx.id)

\* result.bankOnly.filter((t) => t !== bankTx), lines 596 and 624-626
RemoveBank(bankOnly, bankTx) ==
    SelectSeq(bankOnly, LAMBDA t : t.ref # bankTx.ref)

\* mutant of InitialResult: the matched and mismatched arrays of the held
\* result carried into the new one
InitialResultCarried(userTxs, bankRecs) ==
    IF comparisonResult # Null
    THEN [matched |-> comparisonResult.matched, userOnly |-> userTxs,
          bankOnly |-> bankRecs, mismatched |-> comparisonResult.mismatched]
    ELSE [matched |-> << >>, userOnly |-> userTxs, bankOnly |-> bankRecs,
          mismatched |-> << >>]

\* the result object before the pass, lines 571-576
InitialResult(userTxs, bankRecs) ==
    [matched |-> << >>, userOnly |-> userTxs, bankOnly |-> bankRecs,
     mismatched |-> << >>]

\* mutant of Push: the new element put in front
PushFront(arr, item) == <<item>> \o arr

\* result.matched.push(...) and result.mismatched.push(...), lines 591
\* and 618
Push(arr, item) == Append(arr, item)

\* one call of the forEach callback, lines 579-629
CompareStep(result, userTx, bankRecs) ==
    LET pool == SearchPool(result, bankRecs)
        m == FindFirst([j \in 1..Len(pool) |-> IsMatching(userTx, pool[j])])
        p == FindFirst([j \in 1..Len(pool) |->
                           IsPotentialMismatch(userTx, pool[j])])
    IN  IF m # 0
        THEN [result EXCEPT
                !.matched = Push(@, [userTransaction |-> userTx,
                                     bankTransaction |-> pool[m]]),
                !.userOnly = RemoveUser(@, userTx),
                !.bankOnly = RemoveBank(@, pool[m])]
        ELSE IF p # 0
        THEN [result EXCEPT
                !.mismatched =
                    Push(@, [userTransaction |-> userTx,
                             bankTransaction |-> pool[p],
                             reason |-> MismatchReason(userTx, pool[p])]),
                !.userOnly = RemoveUser(@, userTx),
                !.bankOnly = RemoveBank(@, pool[p])]
        ELSE result

\* transactions.forEach over the first n user transactions
RECURSIVE CompareLoop(_, _, _)
CompareLoop(userTxs, bankRecs, n) ==
    IF n = 0
    THEN InitialResult(userTxs, bankRecs)
    ELSE CompareStep(CompareLoop(userTxs, bankRecs, n - 1), userTxs[n],
                     bankRecs)

\* the result object handed to setComparisonResult, line 631
CompareResult(userTxs, bankRecs) ==
    CompareLoop(userTxs, bankRecs, Len(userTxs))

\* mutant of InputsAfterCompare: the pools are the arrays handed in
\* themselves, and the pass removes from them in place
InputsAfterCompareShared(userTxs, bankRecs) ==
    LET result == CompareLoop(userTxs, bankRecs, Len(userTxs))
    IN  [userTxs |-> result.userOnly, bankRecs |-> result.bankOnly]

\* the arrays transactions and bankTransactions after the pass: userOnly
\* and bankOnly start as copies of them (the spreads of lines 573-574) and
\* every removal builds a new array with filter (lines 595-596, 623-626),
\* so nothing writes to the arrays handed in
InputsAfterCompare(userTxs, bankRecs) ==
    [userTxs |-> userTxs, bankRecs |-> bankRecs]


-----------------------------------------------------------------------------
(* generateReport, lines 649-721 *)

NoReport == [none |-> TRUE]

\* line 652
TitleReport ==
    <<"C", "o", "m", "p", "a", "r", "i", "s", "o", "n", " ", "R", "e", "p",
      "o", "r", "t">>

\* line 655
TitleSummary ==
    <<"S", "u", "m", "m", "a", "r", "y">>

\* line 656
HeaderSummary ==
    <<"\"", "M", "e", "t", "r", "i", "c", "\"", ",", "\"", "C", "o", "u",
      "n", "t", "\"">>

\* line 657
LabelMatched ==
    <<"\"", "M", "a", "t", "c", "h", "e", "d", "\"", ",">>

\* line 658
LabelUserOnly ==
    <<"\"", "M", "i", "s", "s", "i", "n", "g", " ", "f", "r", "o", "m", " ",
      "B", "a", "n", "k", "\"", ",">>

\* line 659
LabelBankOnly ==
    <<"\"", "M", "i", "s", "s", "i", "n", "g", " ", "f", "r", "o", "m", " ",
      "R", "e", "c", "o", "r", "d", "s", "\"", ",">>

\* line 660
LabelMismatched ==
    <<"\"", "M", "i", "s", "m", "a", "t", "c", "h", "e", "d", "\"", ",">>

\* line 665
TitleMismatched ==
    <<"M", "i", "s", "m", "a", "t", "c", "h", "e", "d", " ", "T", "r", "a",
      "n", "s", "a", "c", "t", "i", "o", "n", "s">>

\* line 666
HeaderMismatched ==
    <<"\"", "R", "e", "a", "s", "o", "n", "\"", ",", "\"", "D", "a", "t",
      "e", "\"", ",", "\"", "Y", "o", "u", "r", " ", "D", "e", "s", "c",
      "r", "i", "p", "t", "i", "o", "n", "\"", ",", "\"", "Y", "o", "u",
      "r", " ", "C", "a", "t", "e", "g", "o", "r", "y", "\"", ",", "\"",
      "Y", "o", "u", "r", " ", "A", "m", "o", "u", "n", "t", "\"", ",",
      "\"", "Y", "o", "u", "r", " ", "T", "y", "p", "e", "\"", ",", "\"",
      "B", "a", "n", "k", " ", "D", "e", "s", "c", "r", "i", "p", "t", "i",
      "o", "n", "\"", ",", "\"", "B", "a", "n", "k", " ", "A", "m", "o",
      "u", "n", "t", "\"", ",", "\"", "B", "a", "n", "k", " ", "T", "y",
      "p", "e", "\"">>

\* line 685
TitleUserOnly ==
    <<"M", "i", "s", "s", "i", "n", "g", " ", "f", "r", "o", "m", " ", "B",
      "a", "n", "k", " ", "(", "Y", "o", "u", "r", " ", "R", "e", "c", "o",
      "r", "d", "s", " ", "O", "n", "l", "y", ")">>

\* line 686
HeaderUserOnly ==
    <<"\"", "D", "a", "t", "e", "\"", ",", "\"", "D", "e", "s", "c", "r",
      "i", "p", "t", "i", "o", "n", "\"", ",", "\"", "C", "a", "t", "e",
      "g", "o", "r", "y", "\"", ",", "\"", "A", "m", "o", "u", "n", "t",
      "\"", ",", "\"", "T", "y", "p", "e", "\"">>

\* line 697
TitleBankOnly ==
    <<"M", "i", "s", "s", "i", "n", "g", " ", "f", "r", "o", "m", " ", "R",
      "e", "c", "o", "r", "d", "s", " ", "(", "B", "a", "n", "k", " ", "R",
      "e", "c", "o", "r", "d", "s", " ", "O", "n", "l", "y", ")">>

\* line 698
HeaderBankOnly ==
    <<"\"", "D", "a", "t", "e", "\"", ",", "\"", "D", "e", "s", "c", "r",
      "i", "p", "t", "i", "o", "n", "\"", ",", "\"", "A", "m", "o", "u",
      "n", "t", "\"", ",", "\"", "T", "y", "p", "e", "\"">>

\* the characters of the strings that are values of the fields type and
\* reason
Text(s) ==
    CASE s = "income" ->
          <<"i", "n", "c", "o", "m", "e">>
      [] s = "expense" ->
          <<"e", "x", "p", "e", "n", "s", "e">>
      [] s = "debit" ->
          <<"d", "e", "b", "i", "t">>
      [] s = "credit" ->
          <<"c", "r", "e", "d", "i", "t">>
      [] s = "Amount mismatch" ->
          <<"A", "m", "o", "u", "n", "t", " ", "m", "i", "s", "m", "a", "t", "c",
            "h">>
      [] s = "Transaction type mismatch" ->
          <<"T", "r", "a", "n", "s", "a", "c", "t", "i", "o", "n", " ", "t", "y",
            "p", "e", " ", "m", "i", "s", "m", "a", "t", "c", "h">>

\* n in decimal, as many digits as it takes
RECURSIVE DecimalDigits(_)
DecimalDigits(n) ==
    IF n < 10 THEN <<Digits[n + 1]>>
    ELSE DecimalDigits(n \div 10) \o <<Digits[(n % 10) + 1]>>

\* x.toFixed(2): two digits after the point, rounded to the nearest
\* hundredth (a half, which the thousandths of the model cannot place on
\* either side, is taken upwards)
ToFixed2(x) ==
    CASE x.k = "nan" -> <<"N", "a", "N">>
      [] x.k = "inf" ->
            (IF x.v < 0 THEN <<"-">> ELSE << >>)
                \o <<"I", "n", "f", "i", "n", "i", "t", "y">>
      [] OTHER ->
            LET magnitude == IF x.v < 0 THEN 0 - x.v ELSE x.v
                hundredths == (magnitude + 5) \div 10
            IN  (IF x.v < 0 THEN <<"-">> ELSE << >>)
                    \o DecimalDigits(hundredths \div 100) \o <<".">>
                    \o Pad(hundredths % 100, 2)

\* "${value}" of the template literals, lines 669-703
InQuotes(value) == <<"\"">> \o value \o <<"\"">>

\* the fields of a row, each in quotes, separated by commas and closed by
\* a line feed
RECURSIVE ReportRow(_)
ReportRow(fields) ==
    IF Len(fields) = 1 THEN InQuotes(fields[1]) \o <<"\n">>
    ELSE InQuotes(fields[1]) \o <<",">> \o ReportRow(Tail(fields))

\* lines 668-679
MismatchedRow(mismatch) ==
    ReportRow(<<Text(mismatch.reason),
                mismatch.userTransaction.date,
                mismatch.userTransaction.description,
                mismatch.userTransaction.category,
                ToFixed2(mismatch.userTransaction.amount),
                Text(mismatch.userTransaction.type),
                mismatch.bankTransaction.description,
                ToFixed2(mismatch.bankTransaction.amount),
                Text(mismatch.bankTransaction.type)>>)

\* lines 688-690
UserOnlyRow(transaction) ==
    ReportRow(<<transaction.date, transaction.description,
                transaction.category, ToFixed2(transaction.amount),
                Text(transaction.type)>>)

\* lines 700-702
BankOnlyRow(transaction) ==
    ReportRow(<<transaction.date, transaction.description,
                ToFixed2(transaction.amount), Text(transaction.type)>>)

\* the rows one after the other
RECURSIVE Concat(_)
Concat(rows) ==
    IF Len(rows) = 0 THEN << >> ELSE rows[1] \o Concat(Tail(rows))

\* mutant of Section: the title and the header written for an empty bucket
\* too
SectionAlways(title, header, rows) ==
    title \o <<"\n">> \o header \o <<"\n">> \o Concat(rows) \o <<"\n">>

\* one of the three blocks of lines 664-682, 684-693 and 695-705: nothing
\* for an empty bucket, else the title, the header, the rows and an empty
\* line
Section(title, header, rows) ==
    IF Len(rows) > 0
    THEN title \o <<"\n">> \o header \o <<"\n">> \o Concat(rows) \o <<"\n">>
    ELSE << >>

\* csvContent at line 707
ReportText(result) ==
    TitleReport \o <<"\n", "\n">>
        \o TitleSummary \o <<"\n">>
        \o HeaderSummary \o <<"\n">>
        \o LabelMatched \o DecimalDigits(Len(result.matched)) \o <<"\n">>
        \o LabelUserOnly \o DecimalDigits(Len(result.userOnly)) \o <<"\n">>
        \o LabelBankOnly \o DecimalDigits(Len(result.bankOnly)) \o <<"\n">>
        \o LabelMismatched \o DecimalDigits(Len(result.mismatched))
        \o <<"\n">>
        \o <<"\n">>
        \o Section(TitleMismatched, HeaderMismatched,
                   [k \in 1..Len(result.mismatched) |->
                        MismatchedRow(result.mismatched[k])])
        \o Section(TitleUserOnly, HeaderUserOnly,
                   [k \in 1..Len(result.userOnly) |->
                        UserOnlyRow(result.userOnly[k])])
        \o Section(TitleBankOnly, HeaderBankOnly,
                   [k \in 1..Len(result.bankOnly) |->
                        BankOnlyRow(result.bankOnly[k])])

-----------------------------------------------------------------------------
(* The component *)

\* the history keeps the first MaxRuns runs
MaxRuns == 3

NoFile == [none |-> TRUE]

\* mutant of CompareDisabled: the user transactions not looked at
CompareDisabledBankOnly == Len(bankTransactions) = 0

\* disabled={...} of the "Compare Transactions" button, lines 776-778
CompareDisabled == Len(bankTransactions) = 0 \/ Len(transactions) = 0

\* the click on "Compare Transactions": the button is disabled while either
\* sequence is empty (lines 774-783); the handler is lines 561-647
CompareTransactions ==
    /\ ~CompareDisabled
    /\ IF Len(bankTransactions) = 0
       THEN /\ toastTitle' = "No bank data"
            /\ UNCHANGED <<comparisonResult, invocations, transactions,
                           bankTransactions>>
       ELSE LET result == CompareResult(transactions, bankTransactions)
                after == InputsAfterCompare(transactions, bankTransactions)
                run == [userTxs |-> transactions,
                        bankRecs |-> bankTransactions,
                        result |-> result]
            IN  /\ comparisonResult' = result
                /\ transactions' = after.userTxs
                /\ bankTransactions' = after.bankRecs
                /\ toastTitle' = IF Len(result.mismatched) > 0
                                 THEN "Mismatches found"
                                 ELSE "Comparison complete"
                /\ invocations' =
                     IF /\ Len(invocations) < MaxRuns
                        /\ \/ Len(invocations) = 0
                           \/ invocations[Len(invocations)] # run
                     THEN Append(invocations, run)
                     ELSE invocations
    /\ UNCHANGED <<isLoading, pendingFile, host, ingested, report>>

\* the change event of the file input, up to the await of file.text(),
\* lines 389-407.  The input is opened by the "Choose CSV File" button,
\* which is disabled while isLoading (lines 754-757)
HandleFileUpload(file) ==
    /\ ~isLoading
    /\ IF ~EndsWith(file.name, <<".", "c", "s", "v">>)
       THEN /\ toastTitle' = "Invalid file type"
            /\ UNCHANGED <<isLoading, pendingFile>>
       ELSE /\ isLoading' = TRUE
            /\ pendingFile' = file
            /\ UNCHANGED toastTitle
    /\ UNCHANGED <<transactions, bankTransactions, comparisonResult, host,
                   invocations, ingested, report>>

\* mutant of FileTextResolved: a statement that cannot be parsed empties
\* the bank records
FileTextResolvedClearing ==
    /\ pendingFile # NoFile
    /\ LET parsed == parseCSV(pendingFile.text)
       IN  /\ bankTransactions' = parsed.records
           /\ toastTitle' = IF parsed.threw
                            THEN "Error parsing file"
                            ELSE "File uploaded successfully"
           /\ ingested' = [text |-> pendingFile.text] @@ parsed
    /\ isLoading' = FALSE
    /\ pendingFile' = NoFile
    /\ UNCHANGED <<transactions, comparisonResult, host, invocations,
                   report>>

\* file.text() has resolved: the rest of handleFileUpload, lines 407-423
FileTextResolved ==
    /\ pendingFile # NoFile
    /\ LET parsed == parseCSV(pendingFile.text)
       IN  /\ IF parsed.threw
              THEN /\ toastTitle' = "Error parsing file"
                   /\ UNCHANGED bankTransactions
              ELSE /\ bankTransactions' = parsed.records
                   /\ toastTitle' = "File uploaded successfully"
           /\ ingested' = [text |-> pendingFile.text] @@ parsed
    /\ isLoading' = FALSE
    /\ pendingFile' = NoFile
    /\ UNCHANGED <<transactions, comparisonResult, host, invocations,
                   report>>

\* file.text() has rejected: the catch and finally blocks, lines 415-423
FileTextRejected ==
    /\ pendingFile # NoFile
    /\ toastTitle' = "Error parsing file"
    /\ isLoading' = FALSE
    /\ pendingFile' = NoFile
    /\ UNCHANGED <<transactions, bankTransactions, comparisonResult, host,
                   invocations, ingested, report>>

\* mutant of DownloadAvailable: the button shown once a statement is loaded
DownloadAvailableWithBank == Len(bankTransactions) > 0

\* {comparisonResult && (...)} around the "Download Report" button, lines
\* 785-790
DownloadAvailable == comparisonResult # Null

\* the click on "Download Report": generateReport, lines 649-721
GenerateReport ==
    /\ DownloadAvailable
    /\ IF comparisonResult = Null
       THEN UNCHANGED <<report, toastTitle>>
       ELSE /\ report' = ReportText(comparisonResult)
            /\ toastTitle' = "Report downloaded"
    /\ UNCHANGED <<transactions, bankTransactions, comparisonResult,
                   isLoading, pendingFile, host, invocations, ingested>>

-----------------------------------------------------------------------------
(* Inputs of the matcher *)

MaxUser == 2
MaxBank == 2

Date0105 == <<"2","0","2","4","-","0","1","-","0","5">>
Date0106 == <<"2","0","2","4","-","0","1","-","0","6">>
DescRent == <<"r","e","n","t">>
CatHome == <<"h","o","m","e">>

UserTx(date, amount, type) ==
    [date |-> date, amount |-> Num(amount), category |-> CatHome,
     type |-> type, description |-> DescRent]

BankTx(date, amount, type) ==
    [date |-> date, description |-> DescRent, amount |-> amount, type |-> type]

UserCandidates ==
    { UserTx(Date0105, 50000, "expense"), UserTx(Date0105, 50000, "income"),
      UserTx(Date0105, 50010, "expense"), UserTx(Date0106, 5, "expense") }

BankCandidates ==
    { BankTx(Date0105, Num(50000), "debit"),
      BankTx(Date0105, Num(50009), "debit"),
      BankTx(Date0105, Num(50010), "debit"),
      BankTx(Date0105, Num(50011), "debit"),
      BankTx(Date0105, Num(50000), "credit"),
      BankTx(Date0105, Infinity, "debit"),
      BankTx(Date0106, Num(14), "debit"),
      BankTx(Date0106, Num(15), "debit") }

SeqsUpTo(S, n) == UNION { [1..k -> S] : k \in 0..n }

\* user transactions carry pairwise distinct ids
UserTxSeqs ==
    { [i \in 1..Len(q) |-> [id |-> i] @@ q[i]] :
        q \in SeqsUpTo(UserCandidates, MaxUser) }

\* every bank record is an object of its own
BankTxSeqs ==
    { [i \in 1..Len(q) |-> [ref |-> i] @@ q[i]] :
        q \in SeqsUpTo(BankCandidates, MaxBank) }

InitCompare ==
    /\ transactions \in UserTxSeqs
    /\ bankTransactions \in BankTxSeqs
    /\ comparisonResult = Null
    /\ isLoading = FALSE
    /\ pendingFile = NoFile
    /\ toastTitle = ""
    /\ host = [legacy |-> FALSE, east |-> FALSE]
    /\ invocations = << >>
    /\ ingested = Null
    /\ report = NoReport

NextCompare == CompareTransactions

SpecCompare == InitCompare /\ [][NextCompare]_vars


-----------------------------------------------------------------------------
(* Properties of the matcher, checked under SpecCompare *)

Done == comparisonResult # Null

\* the bank records no earlier user transaction has consumed when the pass
\* reaches transactions[i]: result.bankOnly after i - 1 callbacks
AvailableAt(i) == CompareLoop(transactions, bankTransactions, i - 1).bankOnly

InMatched(id) ==
    \E k \in 1..Len(comparisonResult.matched) :
        comparisonResult.matched[k].userTransaction.id = id

InMismatched(id) ==
    \E k \in 1..Len(comparisonResult.mismatched) :
        comparisonResult.mismatched[k].userTransaction.id = id

InUserOnly(id) ==
    \E k \in 1..Len(comparisonResult.userOnly) :
        comparisonResult.userOnly[k].id = id

\* how often the bank record object ref occurs in the three buckets
Occurrences(ref) ==
    Cardinality({k \in 1..Len(comparisonResult.matched) :
                    comparisonResult.matched[k].bankTransaction.ref = ref})
    + Cardinality({k \in 1..Len(comparisonResult.mismatched) :
                    comparisonResult.mismatched[k].bankTransaction.ref = ref})
    + Cardinality({k \in 1..Len(comparisonResult.bankOnly) :
                    comparisonResult.bankOnly[k].ref = ref})

\* the three conditions of an exact match, and their parts, stated on the
\* numbers themselves (thousandths)
AbsDiff(u, b) ==
    IF u.amount.v >= b.amount.v THEN u.amount.v - b.amount.v
    ELSE b.amount.v - u.amount.v

BothFinite(u, b) == u.amount.k = "num" /\ b.amount.k = "num"

AmountsWithin(u, b) == BothFinite(u, b) /\ AbsDiff(u, b) < 10

AmountsDiffer(u, b) == ~BothFinite(u, b) \/ AbsDiff(u, b) >= 10

DirectionAgrees(u, b) ==
    \/ u.type = "income" /\ b.type = "credit"
    \/ u.type = "expense" /\ b.type = "debit"

ExactConditions(u, b) ==
    AmountsWithin(u, b) /\ u.date = b.date /\ DirectionAgrees(u, b)

\* C1: after compare every bank record object is in exactly one of matched,
\* mismatched, bankOnly: none paired twice, none both paired and in
\* bankOnly, none lost.
C1_BankRecordInExactlyOneBucket ==
    Done => \A j \in 1..Len(bankTransactions) :
                Occurrences(bankTransactions[j].ref) = 1

\* C2: |matched| + |mismatched| + |userOnly| = |userTxs| (ids are pairwise
\* distinct).
C2_UserConservation ==
    Done => Len(comparisonResult.matched) + Len(comparisonResult.mismatched)
                + Len(comparisonResult.userOnly) = Len(transactions)

C2_Witness ==
    /\ Done
    /\ Len(comparisonResult.matched) = 1
    /\ Len(comparisonResult.userOnly) = 1
    /\ Len(transactions) = 2

\* C3: each search of a user transaction considers only the bank records no
\* earlier user transaction has consumed and takes the first of them, in
\* bank-record order, that satisfies the search; so the record paired with a
\* user transaction was still available at its turn.
C3_SearchesOnlyUnconsumed ==
    Done => \A i \in 1..Len(transactions) :
        LET u == transactions[i]
            avail == AvailableAt(i)
        IN  /\ \A k \in 1..Len(comparisonResult.matched) :
                 comparisonResult.matched[k].userTransaction.id = u.id =>
                   \E j \in 1..Len(avail) :
                      /\ avail[j].ref = comparisonResult.matched[k].bankTransaction.ref
                      /\ \A h \in 1..(j - 1) : ~ExactConditions(u, avail[h])
            /\ \A k \in 1..Len(comparisonResult.mismatched) :
                 comparisonResult.mismatched[k].userTransaction.id = u.id =>
                   \E j \in 1..Len(avail) :
                      /\ avail[j].ref = comparisonResult.mismatched[k].bankTransaction.ref
                      /\ \A h \in 1..(j - 1) : avail[h].date # u.date

\* C4: every pair in matched satisfies the three conditions (amounts within
\* 0.01, equal dates, direction agreement), and a user transaction with an
\* available bank record satisfying all three is in matched and in neither
\* mismatched nor userOnly.
C4_MatchedIffExactConditions ==
    Done =>
      /\ \A k \in 1..Len(comparisonResult.matched) :
            ExactConditions(comparisonResult.matched[k].userTransaction,
                            comparisonResult.matched[k].bankTransaction)
      /\ \A i \in 1..Len(transactions) :
            (\E j \in 1..Len(AvailableAt(i)) :
                ExactConditions(transactions[i], AvailableAt(i)[j]))
            => /\ InMatched(transactions[i].id)
               /\ ~InMismatched(transactions[i].id)
               /\ ~InUserOnly(transactions[i].id)

\* a user transaction matched with the second bank record, the first one
\* having the same date and another amount
C4_Witness ==
    /\ Done
    /\ Len(comparisonResult.matched) >= 1
    /\ comparisonResult.matched[1].bankTransaction.ref = 2
    /\ bankTransactions[1].date = comparisonResult.matched[1].userTransaction.date

\* C5: the reason of a mismatched triple is "Amount mismatch" when the
\* amounts differ by 0.01 or more (whether or not the directions disagree
\* too), "Transaction type mismatch" otherwise (then the directions
\* disagree); no other reason occurs.
C5_MismatchReason ==
    Done => \A k \in 1..Len(comparisonResult.mismatched) :
        LET e == comparisonResult.mismatched[k]
        IN  /\ e.reason \in {"Amount mismatch", "Transaction type mismatch"}
            /\ AmountsDiffer(e.userTransaction, e.bankTransaction)
                    => e.reason = "Amount mismatch"
            /\ ~AmountsDiffer(e.userTransaction, e.bankTransaction)
                    => /\ e.reason = "Transaction type mismatch"
                       /\ ~DirectionAgrees(e.userTransaction, e.bankTransaction)

\* both reasons in one result, the amount mismatch with disagreeing
\* directions as well
C5_Witness ==
    /\ Done
    /\ \E k \in 1..Len(comparisonResult.mismatched) :
          LET e == comparisonResult.mismatched[k]
          IN  /\ e.reason = "Amount mismatch"
              /\ ~DirectionAgrees(e.userTransaction, e.bankTransaction)
    /\ \E k \in 1..Len(comparisonResult.mismatched) :
          comparisonResult.mismatched[k].reason = "Transaction type mismatch"

\* C7: the tolerance is absolute and strict: with date and direction
\* agreeing, a bank record 0.009 away gives a match whatever the magnitude
\* of the amounts, no matched pair is 0.01 or more apart, and a user
\* transaction whose only same-date bank record is 0.01 or 0.011 away is
\* mismatched with it for the amount.
C7_ToleranceStrictAbsolute ==
    Done =>
      /\ \A i \in 1..Len(transactions) : \A j \in 1..Len(bankTransactions) :
            LET u == transactions[i]
                b == bankTransactions[j]
            IN  (u.date = b.date /\ DirectionAgrees(u, b) /\ BothFinite(u, b)) =>
                  /\ AbsDiff(u, b) = 9 => InMatched(u.id)
                  /\ ( /\ AbsDiff(u, b) \in {10, 11}
                       /\ \A h \in 1..Len(bankTransactions) :
                             bankTransactions[h].date = u.date => h = j )
                     => \E k \in 1..Len(comparisonResult.mismatched) :
                           /\ comparisonResult.mismatched[k].userTransaction.id = u.id
                           /\ comparisonResult.mismatched[k].bankTransaction.ref = b.ref
                           /\ comparisonResult.mismatched[k].reason = "Amount mismatch"
      /\ \A k \in 1..Len(comparisonResult.matched) :
            /\ BothFinite(comparisonResult.matched[k].userTransaction,
                          comparisonResult.matched[k].bankTransaction)
            /\ AbsDiff(comparisonResult.matched[k].userTransaction,
                       comparisonResult.matched[k].bankTransaction) <= 9

\* a match 0.009 apart on small amounts (0.005 and 0.014) next to an amount
\* mismatch exactly 0.01 apart
C7_Witness ==
    /\ Done
    /\ \E k \in 1..Len(comparisonResult.matched) :
          LET e == comparisonResult.matched[k]
          IN  AbsDiff(e.userTransaction, e.bankTransaction) = 9
                /\ e.userTransaction.amount.v < 10
    /\ \E k \in 1..Len(comparisonResult.mismatched) :
          LET e == comparisonResult.mismatched[k]
          IN  /\ BothFinite(e.userTransaction, e.bankTransaction)
              /\ AbsDiff(e.userTransaction, e.bankTransaction) = 10
              /\ DirectionAgrees(e.userTransaction, e.bankTransaction)

\* the position in s of its first element accepted by Test-like hits, given
\* as the set of accepted positions; 0 when the set is empty
FirstOf(positions) ==
    IF positions = {} THEN 0
    ELSE CHOOSE j \in positions : \A h \in positions : j <= h

\* the user transaction id is paired in bucket (matched or mismatched) with
\* the bank record object ref
PairedIn(bucket, id, ref) ==
    \E k \in 1..Len(bucket) :
        bucket[k].userTransaction.id = id /\ bucket[k].bankTransaction.ref = ref

\* C25: a user transaction with an exact match among the bank records
\* still available at its turn is put in matched with the first of them,
\* even when an earlier available record of the same date differs in amount
\* or direction; it does not go through the mismatch search, and that
\* earlier record is not taken by it.
C25_ExactMatchPreferred ==
    Done => \A i \in 1..Len(transactions) :
        LET u == transactions[i]
            avail == AvailableAt(i)
            first == FirstOf({j \in 1..Len(avail) : ExactConditions(u, avail[j])})
        IN  first # 0 =>
              /\ PairedIn(comparisonResult.matched, u.id, avail[first].ref)
              /\ ~InMismatched(u.id)
              /\ \A h \in 1..(first - 1) :
                    /\ ~PairedIn(comparisonResult.matched, u.id, avail[h].ref)
                    /\ ~PairedIn(comparisonResult.mismatched, u.id, avail[h].ref)

\* C28: the mismatch search amounts to taking the first bank record still
\* available that has the date of the user transaction: a user transaction
\* without an exact match is in mismatched exactly when such a record
\* exists, and then with the first one; every pair in mismatched has equal
\* dates and fails the amount or the direction condition.
C28_MismatchSearchIsFirstSameDate ==
    Done =>
      /\ \A i \in 1..Len(transactions) :
            LET u == transactions[i]
                avail == AvailableAt(i)
                first == FirstOf({j \in 1..Len(avail) : avail[j].date = u.date})
            IN  ~InMatched(u.id) =>
                  /\ InMismatched(u.id) <=> first # 0
                  /\ first # 0 => PairedIn(comparisonResult.mismatched, u.id,
                                           avail[first].ref)
      /\ \A k \in 1..Len(comparisonResult.mismatched) :
            LET e == comparisonResult.mismatched[k]
            IN  /\ e.userTransaction.date = e.bankTransaction.date
                /\ \/ AmountsDiffer(e.userTransaction, e.bankTransaction)
                   \/ ~DirectionAgrees(e.userTransaction, e.bankTransaction)

\* the position of the user transaction id in transactions
UserPosition(id) ==
    CHOOSE i \in 1..Len(transactions) : transactions[i].id = id

\* the position of the bank record object ref in bankTransactions
BankPosition(ref) ==
    CHOOSE j \in 1..Len(bankTransactions) : bankTransactions[j].ref = ref

\* the user transactions of the pairs of a bucket come in the order of
\* transactions
PairsInUserOrder(bucket) ==
    \A k, l \in 1..Len(bucket) :
        k < l => UserPosition(bucket[k].userTransaction.id)
                    < UserPosition(bucket[l].userTransaction.id)

\* C30: the buckets keep the order of the inputs: matched and mismatched
\* list their user transactions in the order of userTxs, userOnly is a
\* subsequence of userTxs in its order and bankOnly a subsequence of
\* bankRecs in its order.
C30_BucketsKeepInputOrder ==
    Done =>
      /\ PairsInUserOrder(comparisonResult.matched)
      /\ PairsInUserOrder(comparisonResult.mismatched)
      /\ \A k \in 1..Len(comparisonResult.userOnly) :
            \E i \in 1..Len(transactions) :
                comparisonResult.userOnly[k] = transactions[i]
      /\ \A k, l \in 1..Len(comparisonResult.userOnly) :
            k < l => UserPosition(comparisonResult.userOnly[k].id)
                        < UserPosition(comparisonResult.userOnly[l].id)
      /\ \A k \in 1..Len(comparisonResult.bankOnly) :
            \E j \in 1..Len(bankTransactions) :
                comparisonResult.bankOnly[k] = bankTransactions[j]
      /\ \A k, l \in 1..Len(comparisonResult.bankOnly) :
            k < l => BankPosition(comparisonResult.bankOnly[k].ref)
                        < BankPosition(comparisonResult.bankOnly[l].ref)

\* two matched pairs, with different bank records
C30_Witness ==
    /\ Done
    /\ Len(comparisonResult.matched) = 2
    /\ comparisonResult.matched[1].userTransaction.id = 1
    /\ comparisonResult.matched[2].userTransaction.id = 2
    /\ comparisonResult.matched[1].bankTransaction.ref
          # comparisonResult.matched[2].bankTransaction.ref

C8_UserOnlyIffNoRemainingSameDate ==
    Done => \A i \in 1..Len(transactions) :
        InUserOnly(transactions[i].id)
            <=> ~\E j \in 1..Len(AvailableAt(i)) :
                    AvailableAt(i)[j].date = transactions[i].date


-----------------------------------------------------------------------------
(* Inputs of the report *)

\* a description with a quote and a comma in it
DescQuote == <<"a", "\"", ",", "b">>

\* a description with a comma in it, as a statement written with
\* semicolons gives
DescComma == <<"a", ",", "b">>

ReportUserCandidates ==
    { UserTx(Date0105, 50000, "expense"),
      [UserTx(Date0105, 50000, "income") EXCEPT !.description = DescQuote],
      UserTx(Date0106, 12340, "income") }

ReportBankCandidates ==
    { BankTx(Date0105, Num(50000), "debit"),
      BankTx(Date0106, Num(99990), "credit"),
      [BankTx(Date0106, Num(12340), "credit")
          EXCEPT !.description = DescComma] }

ReportUserSeqs ==
    { [i \in 1..Len(q) |-> [id |-> i] @@ q[i]] :
        q \in SeqsUpTo(ReportUserCandidates, MaxUser) }

ReportBankSeqs ==
    { [i \in 1..Len(q) |-> [ref |-> i] @@ q[i]] :
        q \in SeqsUpTo(ReportBankCandidates, MaxBank) }

\* the component with user transactions and an uploaded statement
InitReport ==
    /\ transactions \in ReportUserSeqs
    /\ bankTransactions \in ReportBankSeqs
    /\ comparisonResult = Null
    /\ isLoading = FALSE
    /\ pendingFile = NoFile
    /\ toastTitle = ""
    /\ host = [legacy |-> FALSE, east |-> FALSE]
    /\ invocations = << >>
    /\ ingested = Null
    /\ report = NoReport

NextReport == CompareTransactions \/ GenerateReport

SpecReport == InitReport /\ [][NextReport]_vars

-----------------------------------------------------------------------------
(* Properties of the report, checked under SpecReport *)

\* the lines of the report downloaded
ReportLines == Split(report, "\n")

\* the first line of lines equal to title, 0 if there is none
TitleAt(lines, title) ==
    IF \E i \in 1..Len(lines) : lines[i] = title
    THEN CHOOSE i \in 1..Len(lines) :
            /\ lines[i] = title
            /\ \A j \in 1..(i - 1) : lines[j] # title
    ELSE 0

\* a count below ten in decimal
Count(n) == <<Digits[n + 1]>>

\* C22: the report holds the Summary first, with the four counts equal to
\* the sizes of matched, userOnly, bankOnly and mismatched of the result;
\* then Mismatched Transactions, Missing from Bank and Missing from Records
\* in that order, each of them there, with its rows, if and only if its
\* bucket is not empty.
C22_ReportSections ==
    report # NoReport =>
        LET lines == ReportLines
            result == comparisonResult
            s == TitleAt(lines, TitleSummary)
            m == TitleAt(lines, TitleMismatched)
            u == TitleAt(lines, TitleUserOnly)
            b == TitleAt(lines, TitleBankOnly)
        IN  /\ s > 0
            /\ \A t \in {m, u, b} : t > 0 => s < t
            /\ lines[s + 2] = LabelMatched \o Count(Len(result.matched))
            /\ lines[s + 3] = LabelUserOnly \o Count(Len(result.userOnly))
            /\ lines[s + 4] = LabelBankOnly \o Count(Len(result.bankOnly))
            /\ lines[s + 5]
                  = LabelMismatched \o Count(Len(result.mismatched))
            /\ m > 0 <=> Len(result.mismatched) > 0
            /\ u > 0 <=> Len(result.userOnly) > 0
            /\ b > 0 <=> Len(result.bankOnly) > 0
            /\ (m > 0 /\ u > 0) => m < u
            /\ (m > 0 /\ b > 0) => m < b
            /\ (u > 0 /\ b > 0) => u < b
            /\ m > 0 => lines[m + 1 + Len(result.mismatched)] # << >>
            /\ u > 0 => lines[u + 1 + Len(result.userOnly)] # << >>
            /\ b > 0 => lines[b + 1 + Len(result.bankOnly)] # << >>

\* a report with the mismatched and the bank-only sections and without the
\* user-only section
C22_Witness ==
    /\ report # NoReport
    /\ Len(comparisonResult.mismatched) = 1
    /\ Len(comparisonResult.userOnly) = 0
    /\ Len(comparisonResult.bankOnly) = 1
    /\ TitleAt(ReportLines, TitleMismatched) = 10
    /\ TitleAt(ReportLines, TitleUserOnly) = 0
    /\ TitleAt(ReportLines, TitleBankOnly) = 14

\* the number of fields of a line read as comma-separated text with the
\* standard quoting: a comma between quotes is part of a field, a doubled
\* quote between quotes is a quote
RECURSIVE FieldsFrom(_, _, _)
FieldsFrom(line, i, quoted) ==
    IF i > Len(line) THEN 1
    ELSE IF line[i] = "\"" THEN FieldsFrom(line, i + 1, ~quoted)
    ELSE IF line[i] = "," /\ ~quoted THEN 1 + FieldsFrom(line, i + 1, FALSE)
    ELSE FieldsFrom(line, i + 1, quoted)

FieldCount(line) == FieldsFrom(line, 1, FALSE)

\* C23: a field of the report that holds the delimiter or a quote is put in
\* quotes with its quotes doubled, so that every row of a section has as
\* many fields as the header of the section, whatever the descriptions
\* hold.
C23_RowsKeepFieldCount ==
    report # NoReport =>
        LET lines == ReportLines
            result == comparisonResult
            m == TitleAt(lines, TitleMismatched)
            u == TitleAt(lines, TitleUserOnly)
            b == TitleAt(lines, TitleBankOnly)
        IN  /\ \A k \in 1..Len(result.mismatched) :
                  m > 0 => FieldCount(lines[m + 1 + k]) = 9
            /\ \A k \in 1..Len(result.userOnly) :
                  u > 0 => FieldCount(lines[u + 1 + k]) = 5
            /\ \A k \in 1..Len(result.bankOnly) :
                  b > 0 => FieldCount(lines[b + 1 + k]) = 4

-----------------------------------------------------------------------------
(* Inputs of the ingestion *)

MaxRows == 2

NameCsv ==
    <<"b", "a", "n", "k", ".", "c", "s", "v">>

NameTxt ==
    <<"b", "a", "n", "k", ".", "t", "x", "t">>

NameUpperCsv ==
    <<"B", "A", "N", "K", ".", "C", "S", "V">>

CellIso05 ==
    <<"2", "0", "2", "4", "-", "0", "1", "-", "0", "5">>

CellIso06 ==
    <<"2", "0", "2", "4", "-", "0", "1", "-", "0", "6">>

CellDot ==
    <<"5", ".", "1", ".", "2", "0", "2", "4">>

\* day first with dashes
CellDash ==
    <<"1", "3", "-", "1", "-", "2", "0", "2", "4">>

\* the shape D.M.YYYY with a day past the end of the month
CellDotBad ==
    <<"3", "1", ".", "2", ".", "2", "0", "2", "4">>

CellNoDate ==
    <<"n", "o", "t", "-", "a", "-", "d", "a", "t", "e">>

CellRent ==
    <<"r", "e", "n", "t">>

CellPay ==
    <<"p", "a", "y">>

Cell50 ==
    <<"5", "0", ".", "2", "5">>

CellMinus50 ==
    <<"-", "5", "0">>

CellZero ==
    <<"0">>

CellWord ==
    <<"a", "b", "c">>

CellMinusInfinity ==
    <<"-", "I", "n", "f", "i", "n", "i", "t", "y">>

CellComma ==
    <<"1", "2", ",", "5">>

CellMinusComma ==
    <<"-", "1", "2", ",", "5">>

CellDeposit ==
    <<"D", "e", "p", "o", "s", "i", "t">>

CellEmpty == << >>

CellSemi ==
    <<"a", ";", "b">>

CellDebit ==
    <<"d", "e", "b", "i", "t">>

CellCredit ==
    <<"C", "R", "E", "D", "I", "T">>

CellHaben ==
    <<"H", "a", "b", "e", "n">>

HeaderTyped ==
    <<"D", "a", "t", "e", ",", "D", "e", "s", "c", "r", "i", "p", "t",
    "i", "o", "n", ",", "A", "m", "o", "u", "n", "t", ",", "T", "y", "p",
    "e">>

HeaderUntyped ==
    <<"D", "a", "t", "e", ",", "D", "e", "s", "c", "r", "i", "p", "t",
    "i", "o", "n", ",", "A", "m", "o", "u", "n", "t">>

\* German names only; the date is named by the first and by the last cell
HeaderGerman ==
    <<"D", "a", "t", "u", "m", ";", "B", "e", "s", "c", "h", "r", "e",
    "i", "b", "u", "n", "g", ";", "B", "e", "t", "r", "a", "g", ";", "A",
    "r", "t", ";", "V", "a", "l", "u", "t", "a", "d", "a", "t", "u", "m">>

HeaderNoAmount ==
    <<"D", "a", "t", "e", ",", "D", "e", "s", "c", "r", "i", "p", "t",
    "i", "o", "n", ",", "T", "y", "p", "e">>

\* cells separated by semicolons, with a comma and a tab inside cells
HeaderMixed ==
    <<"\"", "B", "o", "o", "k", "i", "n", "g", " ", "D", "a", "t", "e",
    "\"", ";", " ", "M", "e", "m", "o", ",", " ", "t", "e", "x", "t", ";",
    "A", "m", "o", "u", "n", "t", ";", "T", "r", "a", "n", "s", "a", "c",
    "t", "i", "o", "n", "\t", "d", "e", "t", "a", "i", "l", "s">>

\* cells separated by tabs, with a comma inside a cell
HeaderTab ==
    <<"D", "a", "t", "u", "m", "\t", "D", "e", "t", "a", "i", "l", ",",
    " ", "x", "\t", "B", "e", "t", "r", "a", "g">>

\* the first cell names the date and the type
HeaderShared ==
    <<"T", "r", "a", "n", "s", "a", "c", "t", "i", "o", "n", " ", "D", "a",
    "t", "e", ",", "D", "e", "s", "c", "r", "i", "p", "t", "i", "o", "n",
    ",", "A", "m", "o", "u", "n", "t">>

\* the data rows: date cell, description cell, amount cell, type cell
DataRows ==
    { <<CellIso05, CellRent, Cell50, CellDebit>>,
      <<CellIso05, CellRent, CellMinus50, CellDebit>>,
      <<CellIso06, CellPay, CellMinusComma, CellDeposit>>,
      <<CellDot, CellPay, CellZero, CellHaben>>,
      <<CellIso06, CellRent, CellWord, CellDebit>>,
      <<CellIso05, CellPay, CellMinusInfinity, CellEmpty>>,
      <<CellNoDate, CellRent, Cell50, CellDebit>>,
      <<CellIso05, CellRent>>,
      << >> }

Headers == {HeaderTyped, HeaderUntyped, HeaderGerman}

\* cells joined by the delimiter
RECURSIVE JoinCells(_, _)
JoinCells(cells, delimiter) ==
    IF Len(cells) = 0 THEN << >>
    ELSE IF Len(cells) = 1 THEN cells[1]
    ELSE cells[1] \o <<delimiter>> \o JoinCells(Tail(cells), delimiter)

\* a statement: the header line, then one line per row written with the
\* delimiter of the header
RECURSIVE StatementLines(_, _)
StatementLines(rows, delimiter) ==
    IF Len(rows) = 0 THEN << >>
    ELSE <<"\n">> \o JoinCells(rows[1], delimiter)
            \o StatementLines(Tail(rows), delimiter)

Statement(header, rows) ==
    header \o StatementLines(rows, DetectDelimiter(header))

\* further headers, each with the delimiter its statement is written with
DelimitedHeaders ==
    { [header |-> HeaderMixed, delimiter |-> ";"],
      [header |-> HeaderTab, delimiter |-> "\t"],
      [header |-> HeaderShared, delimiter |-> ","],
      [header |-> HeaderNoAmount, delimiter |-> ","],
      [header |-> HeaderTyped, delimiter |-> ","] }

\* rows with the other delimiters inside their cells
DelimitedRows ==
    { <<CellIso05, CellRent, Cell50, CellDebit>>,
      <<CellIso06, CellPay, CellMinusComma, CellCredit>>,
      <<CellIso05, CellSemi, Cell50, CellCredit>>,
      <<CellDash, CellPay, Cell50, CellCredit>>,
      <<CellDotBad, CellRent, Cell50, CellDebit>> }

\* texts without a non-empty line
BlankTexts == { << >>, <<" ", "\n", " ">> }

IngestTexts ==
    { Statement(h, rows) : h \in Headers, rows \in SeqsUpTo(DataRows, MaxRows) }
    \cup { h.header \o StatementLines(rows, h.delimiter) :
              h \in DelimitedHeaders,
              rows \in SeqsUpTo(DelimitedRows, MaxRows) }
    \cup BlankTexts

\* the state in which handleFileUpload awaits the text of a chosen file
InitIngest ==
    /\ transactions = << >>
    /\ bankTransactions = << >>
    /\ comparisonResult = Null
    /\ isLoading = TRUE
    /\ pendingFile \in { [name |-> NameCsv, text |-> t] : t \in IngestTexts }
    /\ toastTitle = ""
    /\ host \in Hosts
    /\ invocations = << >>
    /\ ingested = Null
    /\ report = NoReport

NextIngest == FileTextResolved \/ FileTextRejected

SpecIngest == InitIngest /\ [][NextIngest]_vars


-----------------------------------------------------------------------------
(* Properties of the ingestion, checked under SpecIngest *)

\* C9: every record emitted by parseCSV has a non-negative amount, with or
\* without a type column.
C9_AmountsNonNegative ==
    \A i \in 1..Len(bankTransactions) : ~LessThan(bankTransactions[i].amount, 0)

\* C10: no record emitted by parseCSV has an amount that is not a finite
\* number (NaN, Infinity or -Infinity).
C10_AmountsFinite ==
    \A i \in 1..Len(bankTransactions) : bankTransactions[i].amount.k = "num"

\* the last call of parseCSV seen from outside: the lines of its text,
\* the header line, and the header cells lower-cased and stripped of white
\* space and quotes
Ingested == ingested # Null

TextLines == Split(Trim(ingested.text), "\n")

HasChar(s, c) == \E i \in 1..Len(s) : s[i] = c

\* the delimiter the header line asks for
PriorityDelimiter(headerLine) ==
    IF HasChar(headerLine, ";") THEN ";"
    ELSE IF HasChar(headerLine, "\t") THEN "\t"
    ELSE ","

NormalizedHeader ==
    LET headerLine == TextLines[1]
        raw == Split(headerLine, PriorityDelimiter(headerLine))
    IN  [i \in 1..Len(raw) |-> StripQuotes(Trim(ToLowerCase(raw[i])))]

\* the synonyms of each field
Synonyms ==
    [date |-> { <<"d", "a", "t", "e">>, <<"d", "a", "t", "u", "m">> },
     desc |-> { <<"d", "e", "s", "c", "r", "i", "p", "t", "i", "o", "n">>,
                <<"m", "e", "m", "o">>,
                <<"d", "e", "t", "a", "i", "l">>,
                <<"b", "e", "s", "c", "h", "r", "e", "i", "b", "u", "n", "g">> },
     amount |-> { <<"a", "m", "o", "u", "n", "t">>,
                  <<"b", "e", "t", "r", "a", "g">> },
     type |-> { <<"t", "y", "p", "e">>,
                <<"t", "r", "a", "n", "s", "a", "c", "t", "i", "o", "n">>,
                <<"a", "r", "t">> }]

\* the header cell named the field
Names(field, cell) == \E w \in Synonyms[field] : Includes(cell, w)

\* some cell of the header h names the field
HeaderNames(h, field) == \E i \in 1..Len(h) : Names(field, h[i])

\* the position of the leftmost cell of the header h naming the field, 0
\* for none
Leftmost(h, field) ==
    IF HeaderNames(h, field)
    THEN CHOOSE i \in 1..Len(h) :
            Names(field, h[i]) /\ \A j \in 1..(i - 1) : ~Names(field, h[j])
    ELSE 0

\* C11: ingest fails with the missing-required-columns error exactly when
\* no header cell names the date, or none names the description, or none
\* names the amount; a header without a type column does not make it fail.
C11_MissingColumnsIff ==
    Ingested =>
        LET h == NormalizedHeader
        IN  ingested.threw <=> \/ ~HeaderNames(h, "date")
                               \/ ~HeaderNames(h, "desc")
                               \/ ~HeaderNames(h, "amount")

\* the error for a header that names the date and the description and not
\* the amount
C11_Witness ==
    /\ Ingested
    /\ ingested.threw
    /\ toastTitle = "Error parsing file"
    /\ LET h == NormalizedHeader
       IN  /\ HeaderNames(h, "date") /\ HeaderNames(h, "desc")
           /\ ~HeaderNames(h, "amount")

\* C12: ingest of a text without a non-empty line (empty, or white space
\* only) returns the empty sequence and signals no error.
C12_BlankTextGivesEmpty ==
    (Ingested /\ Trim(ingested.text) = << >>) =>
        /\ ~ingested.threw
        /\ ingested.records = << >>
        /\ toastTitle = "File uploaded successfully"

\* the fields of the column indices found by the parser
Fields == {"date", "desc", "amount", "type"}

\* the cells of a data line, trimmed and stripped of quotes
RowCells(line, delimiter) ==
    LET raw == Split(line, delimiter)
    IN  [i \in 1..Len(raw) |-> StripQuotes(Trim(raw[i]))]

\* the signed number in the amount cell, a comma read as the decimal point
SignedAmount(cells, col) == parseFloat(ReplaceFirstComma(cells[col.amount]))

\* the defects of a data line: it is blank, has too few cells for a column
\* in use, has an amount that is not a number, or a date that cannot be
\* normalized
RowDefect(line, delimiter, col) ==
    LET cells == RowCells(line, delimiter)
    IN  \/ Trim(line) = << >>
        \/ \E f \in Fields : col[f] > Len(cells)
        \/ isNaN(SignedAmount(cells, col))
        \/ formatDate(cells[col.date]) = InvalidDateString

\* the n-th data line is in the records returned
Emitted(n) == \E i \in 1..Len(ingested.records) : ingested.records[i].ref = n

\* C13: once the header names the three required columns ingest does not
\* fail, whatever the data rows: a blank row, a row with too few columns, an
\* unparsable amount or an invalid date removes that row only, and every row
\* without such a defect is emitted.
C13_RowDefectsNeverFatal ==
    Ingested =>
        LET lines == TextLines
            col == ingested.indices
            delimiter == ingested.delimiter
        IN  (col.date # 0 /\ col.desc # 0 /\ col.amount # 0) =>
                /\ ~ingested.threw
                /\ \A n \in 1..(Len(lines) - 1) :
                      Emitted(n) <=> ~RowDefect(lines[n + 1], delimiter, col)

\* a first row with a date that cannot be normalized dropped, the second
\* row emitted
C13_Witness ==
    /\ Ingested
    /\ ~ingested.threw
    /\ Len(TextLines) = 3
    /\ RowCells(TextLines[2], ingested.delimiter)[1] = CellNoDate
    /\ Len(ingested.records) = 1
    /\ ingested.records[1].ref = 2
    /\ toastTitle = "File uploaded successfully"

\* C14: the delimiter is chosen from the header line alone, a semicolon
\* before a tab before the comma: a header with a semicolon is split at
\* semicolons even if it holds tabs or commas too, a header with a tab and
\* no semicolon at tabs, any other at commas, whatever the data lines hold;
\* the data lines are split with it.
C14_DelimiterPriority ==
    Ingested =>
        LET lines == TextLines
            headerLine == lines[1]
            col == ingested.indices
        IN  /\ HasChar(headerLine, ";") => ingested.delimiter = ";"
            /\ (HasChar(headerLine, "\t") /\ ~HasChar(headerLine, ";"))
                    => ingested.delimiter = "\t"
            /\ (~HasChar(headerLine, "\t") /\ ~HasChar(headerLine, ";"))
                    => ingested.delimiter = ","
            /\ \A i \in 1..Len(ingested.records) :
                  LET r == ingested.records[i]
                  IN  r.description =
                        RowCells(lines[r.ref + 1],
                                 PriorityDelimiter(headerLine))[col.desc]

\* a header with semicolons, a comma and a tab, split at the semicolons,
\* with a record read from a data line that holds a comma
C14_Witness ==
    /\ Ingested
    /\ HasChar(TextLines[1], ";")
    /\ HasChar(TextLines[1], "\t")
    /\ HasChar(TextLines[1], ",")
    /\ ingested.delimiter = ";"
    /\ \E i \in 1..Len(ingested.records) :
          HasChar(TextLines[ingested.records[i].ref + 1], ",")

\* C15: the column of each field (date, description, amount, type) is the
\* leftmost header cell that, lower-cased and stripped of quotes and white
\* space, contains a synonym of the field (none when no cell does); a header
\* whose cells are datum, beschreibung, betrag has its three required
\* columns found, in that order.
C15_LeftmostSynonymWins ==
    Ingested =>
        LET h == NormalizedHeader
        IN  /\ ingested.indices.date = Leftmost(h, "date")
            /\ ingested.indices.desc = Leftmost(h, "desc")
            /\ ingested.indices.amount = Leftmost(h, "amount")
            /\ ingested.indices.type = Leftmost(h, "type")
            /\ ( /\ Len(h) >= 3
                 /\ h[1] = <<"d", "a", "t", "u", "m">>
                 /\ h[2] = <<"b", "e", "s", "c", "h", "r", "e", "i", "b",
                            "u", "n", "g">>
                 /\ h[3] = <<"b", "e", "t", "r", "a", "g">> )
               => /\ ~ingested.threw
                  /\ ingested.indices.date = 1
                  /\ ingested.indices.desc = 2
                  /\ ingested.indices.amount = 3

\* a German header whose first and last cell both name the date: the first
\* is taken, and records are read
C15_Witness ==
    /\ Ingested
    /\ LET h == NormalizedHeader
       IN  /\ Len(h) = 5
           /\ h[1] = <<"d", "a", "t", "u", "m">>
           /\ Names("date", h[5])
    /\ ingested.indices.date = 1
    /\ ingested.indices.desc = 2
    /\ ingested.indices.amount = 3
    /\ Len(ingested.records) >= 1

\* the number x without its sign
Magnitude(x) == [x EXCEPT !.v = IF x.v < 0 THEN 0 - x.v ELSE x.v]

\* x is a number above zero
StrictlyPositive(x) == x.k # "nan" /\ x.v > 0

\* C16: without a type column the flow of a record is credit exactly when
\* the signed number in the amount cell is strictly positive and debit
\* otherwise (so zero and every negative amount give debit), and the amount
\* stored is the absolute value of that number.
C16_UntypedFlowFromSign ==
    (Ingested /\ ~ingested.threw) =>
        LET lines == TextLines
            col == ingested.indices
            delimiter == ingested.delimiter
        IN  col.type = 0 =>
              \A i \in 1..Len(ingested.records) :
                 LET r == ingested.records[i]
                     signed == SignedAmount(RowCells(lines[r.ref + 1],
                                                     delimiter), col)
                 IN  /\ r.type = IF StrictlyPositive(signed) THEN "credit"
                                  ELSE "debit"
                     /\ r.amount = Magnitude(signed)

\* no type column; a row with amount 0 and a row with a negative amount,
\* both emitted as debits, the second with the positive amount
C16_Witness ==
    /\ Ingested
    /\ ~ingested.threw
    /\ ingested.indices.type = 0
    /\ Len(ingested.records) = 2
    /\ ingested.records[1].amount = Num(0)
    /\ ingested.records[1].type = "debit"
    /\ ingested.records[2].amount = Num(50000)
    /\ ingested.records[2].type = "debit"

\* the words that make a type cell a credit
CreditWords ==
    { <<"c", "r", "e", "d", "i", "t">>,
      <<"d", "e", "p", "o", "s", "i", "t">>,
      <<"h", "a", "b", "e", "n">> }

\* C17: with a type column the flow of a record is credit exactly when the
\* lower-cased type cell contains credit, deposit or haben, and debit for
\* any other cell, the empty one included, whatever the sign of the amount.
C17_TypedFlowFromTypeCell ==
    (Ingested /\ ~ingested.threw) =>
        LET lines == TextLines
            col == ingested.indices
            delimiter == ingested.delimiter
        IN  col.type # 0 =>
              \A i \in 1..Len(ingested.records) :
                 LET r == ingested.records[i]
                     cell == ToLowerCase(RowCells(lines[r.ref + 1],
                                                  delimiter)[col.type])
                 IN  r.type = IF \E w \in CreditWords : Includes(cell, w)
                              THEN "credit"
                              ELSE "debit"

\* a type column; a credit with a negative amount cell, then a debit from
\* an empty type cell
C17_Witness ==
    /\ Ingested
    /\ ~ingested.threw
    /\ LET lines == TextLines
           col == ingested.indices
           delimiter == ingested.delimiter
       IN  /\ col.type # 0
           /\ Len(ingested.records) = 2
           /\ ingested.records[1].type = "credit"
           /\ SignedAmount(RowCells(lines[2], delimiter), col).v < 0
           /\ ingested.records[2].type = "debit"
           /\ RowCells(lines[3], delimiter)[col.type] = << >>

\* C18: the records returned are a subsequence of the data lines in their
\* order: each record is read from a data line of its own (its date and
\* description are those of the line), and a record that comes later in
\* the sequence is read from a later line, so that no line is emitted twice.
C18_OrderPreservingSubsequence ==
    (Ingested /\ ~ingested.threw) =>
        LET lines == TextLines
            col == ingested.indices
            delimiter == ingested.delimiter
            records == ingested.records
        IN  /\ \A i \in 1..Len(records) :
                  /\ records[i].ref \in 1..(Len(lines) - 1)
                  /\ LET cells == RowCells(lines[records[i].ref + 1], delimiter)
                     IN  /\ records[i].description = cells[col.desc]
                         /\ records[i].date = formatDate(cells[col.date])
            /\ \A i, j \in 1..Len(records) :
                  i < j => records[i].ref < records[j].ref

\* two records with different dates and descriptions read from two lines
C18_Witness ==
    /\ Ingested
    /\ ~ingested.threw
    /\ Len(TextLines) = 3
    /\ Len(ingested.records) = 2
    /\ ingested.records[1].ref = 1
    /\ ingested.records[2].ref = 2
    /\ ingested.records[1].description # ingested.records[2].description
    /\ ingested.records[1].date # ingested.records[2].date

\* the highest index of a column in use
HighestInUse(col) ==
    Max2(Max2(col.date, col.desc), Max2(col.amount, col.type))

\* the record emitted for the n-th data line
RecordOf(n) ==
    ingested.records[CHOOSE i \in 1..Len(ingested.records) :
                        ingested.records[i].ref = n]

\* C26: ingest keeps a non-blank row only if it has a cell at every column
\* index in use: a row with fewer cells than the highest index in use asks
\* for is dropped, a row with that many cells is not dropped for its cell
\* count, and no emitted record is built from a missing cell.
C26_ShortRowsDropped ==
    Ingested =>
        LET lines == TextLines
            col == ingested.indices
            delimiter == ingested.delimiter
        IN  (col.date # 0 /\ col.desc # 0 /\ col.amount # 0) =>
                /\ ~ingested.threw
                /\ \A n \in 1..(Len(lines) - 1) :
                      LET line == lines[n + 1]
                          cells == RowCells(line, delimiter)
                      IN  /\ Emitted(n) =>
                                /\ Len(cells) >= HighestInUse(col)
                                /\ RecordOf(n).description = cells[col.desc]
                          /\ Len(cells) < HighestInUse(col) => ~Emitted(n)
                          /\ ( /\ Trim(line) # << >>
                               /\ Len(cells) >= HighestInUse(col)
                               /\ ~isNaN(SignedAmount(cells, col))
                               /\ formatDate(cells[col.date])
                                     # InvalidDateString )
                                => Emitted(n)

\* a first row of two cells dropped under a header of three or more columns
\* in use, the full second row emitted
C26_Witness ==
    /\ Ingested
    /\ ~ingested.threw
    /\ Len(TextLines) = 3
    /\ Len(RowCells(TextLines[2], ingested.delimiter)) = 2
    /\ HighestInUse(ingested.indices) >= 3
    /\ Len(ingested.records) = 1
    /\ ingested.records[1].ref = 2
    /\ Len(RowCells(TextLines[3], ingested.delimiter))
          = HighestInUse(ingested.indices)

\* the general-purpose parser gives no date for raw
GeneralRejects(raw) == NewDate(raw) = InvalidDate

\* day, month, year of a raw string of the shape D.M.YYYY or D-M-YYYY, the
\* dots tried first; << >> for any other string
DayMonthYear(raw) ==
    IF NumericDateParts(raw, ".") # << >> THEN NumericDateParts(raw, ".")
    ELSE NumericDateParts(raw, "-")

\* two decimal digits
TwoDigits(n) == <<Digits[(n \div 10) + 1], Digits[(n % 10) + 1]>>

\* YYYY-MM-DD with day and month padded with zeros
PaddedKey(dmy) ==
    <<Digits[(dmy[3] \div 1000) + 1], Digits[((dmy[3] \div 100) % 10) + 1],
      Digits[((dmy[3] \div 10) % 10) + 1], Digits[(dmy[3] % 10) + 1]>>
        \o <<"-">> \o TwoDigits(dmy[2]) \o <<"-">> \o TwoDigits(dmy[1])

\* day and month name a day of the calendar
CalendarDay(dmy) ==
    /\ dmy[2] \in 1..12
    /\ dmy[1] \in 1..DaysInMonth(dmy[3], dmy[2])

\* the n-th data line has no defect but, possibly, its date
SoundButDate(line, delimiter, col) ==
    LET cells == RowCells(line, delimiter)
    IN  /\ Trim(line) # << >>
        /\ Len(cells) >= HighestInUse(col)
        /\ ~isNaN(SignedAmount(cells, col))

\* C27 as stated: the general parser first; every raw string it rejects
\* that has the shape D.M.YYYY or D-M-YYYY is normalized to the key
\* YYYY-MM-DD with day and month padded, and the normalization fails only
\* for a string that no attempt applies to.
C27_PatternAlwaysSucceeds ==
    Ingested =>
        LET lines == TextLines
            col == ingested.indices
            delimiter == ingested.delimiter
        IN  (col.date # 0 /\ col.desc # 0 /\ col.amount # 0) =>
              \A n \in 1..(Len(lines) - 1) :
                SoundButDate(lines[n + 1], delimiter, col) =>
                  LET raw == RowCells(lines[n + 1], delimiter)[col.date]
                      dmy == DayMonthYear(raw)
                  IN  /\ ~GeneralRejects(raw) =>
                            /\ Emitted(n)
                            /\ RecordOf(n).date = IsoDay(NewDate(raw))
                      /\ (GeneralRejects(raw) /\ dmy # << >>) =>
                            /\ Emitted(n)
                            /\ RecordOf(n).date = PaddedKey(dmy)
                      /\ ~Emitted(n) => (GeneralRejects(raw) /\ dmy = << >>)

\* C27, amended: the general parser first; every raw string it rejects
\* that has the shape D.M.YYYY or D-M-YYYY and whose day and month name a
\* day of the calendar is normalized to the key YYYY-MM-DD with day and
\* month padded; the normalization fails only for a string the general
\* parser rejects and that has neither shape or names no day of the
\* calendar.
C27_PatternSucceedsOnCalendarDays ==
    Ingested =>
        LET lines == TextLines
            col == ingested.indices
            delimiter == ingested.delimiter
        IN  (col.date # 0 /\ col.desc # 0 /\ col.amount # 0) =>
              \A n \in 1..(Len(lines) - 1) :
                SoundButDate(lines[n + 1], delimiter, col) =>
                  LET raw == RowCells(lines[n + 1], delimiter)[col.date]
                      dmy == DayMonthYear(raw)
                  IN  /\ ~GeneralRejects(raw) =>
                            /\ Emitted(n)
                            /\ RecordOf(n).date = IsoDay(NewDate(raw))
                      /\ ( /\ GeneralRejects(raw)
                           /\ dmy # << >>
                           /\ CalendarDay(dmy) ) =>
                            /\ Emitted(n)
                            /\ RecordOf(n).date = PaddedKey(dmy)
                      /\ ~Emitted(n) =>
                            /\ GeneralRejects(raw)
                            /\ dmy = << >> \/ ~CalendarDay(dmy)

\* a first row dated 31.2.2024 dropped and a second row dated 13-1-2024
\* emitted with the key 2024-01-13
C27_Witness ==
    /\ Ingested
    /\ ~ingested.threw
    /\ Len(TextLines) = 3
    /\ RowCells(TextLines[2], ingested.delimiter)[ingested.indices.date]
          = CellDotBad
    /\ RowCells(TextLines[3], ingested.delimiter)[ingested.indices.date]
          = CellDash
    /\ GeneralRejects(CellDash)
    /\ Len(ingested.records) = 1
    /\ ingested.records[1].ref = 2
    /\ ingested.records[1].date
          = <<"2", "0", "2", "4", "-", "0", "1", "-", "1", "3">>

-----------------------------------------------------------------------------
(* The component from its construction *)

StatementA ==
    Statement(HeaderTyped, << <<CellIso05, CellRent, Cell50, CellDebit>> >>)
StatementB ==
    Statement(HeaderGerman, << <<CellIso05, CellRent, Cell50, CellDebit>>,
                               <<CellIso06, CellPay, CellComma, CellCredit>> >>)
StatementNoRows == HeaderUntyped
StatementNoAmount ==
    Statement(HeaderNoAmount, << <<CellIso05, CellRent, CellDebit>> >>)

Files ==
    { [name |-> NameCsv, text |-> StatementA],
      [name |-> NameCsv, text |-> StatementB],
      [name |-> NameCsv, text |-> StatementNoRows],
      [name |-> NameCsv, text |-> StatementNoAmount],
      [name |-> NameTxt, text |-> StatementA],
      [name |-> NameUpperCsv, text |-> StatementB] }

\* the prop handed to the component by its parent
Props ==
    { << >>,
      << [id |-> 1] @@ UserTx(Date0105, 50250, "expense") >>,
      << [id |-> 1] @@ UserTx(Date0105, 50250, "expense"),
         [id |-> 2] @@ UserTx(Date0106, 12000, "income") >> }

\* lines 380-385; the statements of Files hold ISO dates only, which every
\* host reads alike, so one host stands for all
Init ==
    /\ transactions \in Props
    /\ bankTransactions = << >>
    /\ comparisonResult = Null
    /\ isLoading = FALSE
    /\ pendingFile = NoFile
    /\ toastTitle = ""
    /\ host = [legacy |-> FALSE, east |-> FALSE]
    /\ invocations = << >>
    /\ ingested = Null
    /\ report = NoReport

Next ==
    \/ \E file \in Files : HandleFileUpload(file)
    \/ FileTextResolved
    \/ FileTextRejected
    \/ CompareTransactions
    \/ GenerateReport

Spec == Init /\ [][Next]_vars

-----------------------------------------------------------------------------
(* Properties of the component, checked under Spec *)

C19_HeldResultIsCurrent ==
    comparisonResult # Null =>
        comparisonResult = CompareResult(transactions, bankTransactions)

\* C20: while the bank records or the user transactions are empty no
\* comparison takes place: no step stores a result or runs the matcher, and
\* a result held before stays as it is.
C20_EmptyComparisonRefused ==
    [][ (Len(bankTransactions) = 0 \/ Len(transactions) = 0)
            => /\ comparisonResult' = comparisonResult
               /\ invocations' = invocations ]_vars

\* bank records uploaded while there are no user transactions: the
\* comparison cannot be started and no result exists
C20_Witness ==
    /\ Len(transactions) = 0
    /\ Len(bankTransactions) > 0
    /\ toastTitle = "File uploaded successfully"
    /\ ~isLoading
    /\ comparisonResult = Null

\* C29: an upload that is refused for its name, or whose ingestion fails,
\* leaves the bank records and the held result as they were, and whenever
\* an upload attempt has finished the loading flag is false.
C29_FailedUploadKeepsState ==
    [][ /\ ( \/ /\ pendingFile = NoFile
                /\ pendingFile' = NoFile
                /\ toastTitle' = "Invalid file type"
             \/ /\ pendingFile # NoFile
                /\ pendingFile' = NoFile
                /\ toastTitle' = "Error parsing file" )
            => /\ bankTransactions' = bankTransactions
               /\ comparisonResult' = comparisonResult
               /\ ~isLoading'
        /\ (pendingFile # NoFile /\ pendingFile' = NoFile) => ~isLoading'
      ]_vars

\* a statement without an amount column uploaded after a comparison: the
\* ingestion has failed, the bank records and the result are still held
C29_Witness ==
    /\ ingested # Null
    /\ ingested.threw
    /\ toastTitle = "Error parsing file"
    /\ Len(bankTransactions) > 0
    /\ comparisonResult # Null
    /\ ~isLoading
    /\ pendingFile = NoFile

\* C24: a report can be downloaded only after a comparison has completed:
\* before the first completed comparison the "Download Report" button is
\* not there and no report has been generated, and once a comparison has
\* completed the button is there.
C24_ReportOnlyAfterComparison ==
    /\ Len(invocations) = 0 => (~DownloadAvailable /\ report = NoReport)
    /\ Len(invocations) > 0 => DownloadAvailable

\* a report downloaded after a comparison
C24_Witness ==
    /\ Len(invocations) > 0
    /\ report # NoReport
    /\ report = ReportText(comparisonResult)
    /\ toastTitle = "Report downloaded"

=============================================================================
